---- MODULE Spec2Model ----
(***************************************************************************)
(* Attribution pipeline of src/src/pipeline.py: journey extraction from a  *)
(* hit log, per-journey attribution scoring, aggregation into a ranked     *)
(* table and the top-N report.                                             *)
(*                                                                         *)
(* Representation                                                          *)
(*   - a URL is the sequence of its path segments: "/articles/article1"    *)
(*     is <<"articles", "article1">>, "/register" is <<"register">>;       *)
(*   - a float is an IEEE-754 double, as the record of its exponent and    *)
(*     the two halves of its significand;                                  *)
(*   - a Python dict is the sequence of its [key, val] items in insertion  *)
(*     order; a DataFrame is the sequence of its rows, each row carrying   *)
(*     its index label;                                                    *)
(*   - a parsed timestamp is a natural number;                             *)
(*   - build is the kind of numpy the run uses, on which the order that    *)
(*     sort_values leaves among equal keys depends.                        *)
(***************************************************************************)
EXTENDS Integers, Sequences, FiniteSets

VARIABLES df, attribution_method, user_pos, journeys, scored, journey,
          journey_scores, article_scores, results, top, topN, pc, build

vars == <<df, attribution_method, user_pos, journeys, scored, journey,
          journey_scores, article_scores, results, top, topN, pc, build>>

-----------------------------------------------------------------------------
(* Bounds of the model *)

\* longest journey handed to the scorer on its own
MaxLen == 4
\* most rows in a hit log
MaxRows == 3
\* timestamps of a hit log are 1..MaxTs
MaxTs == 2
\* most page views, over all journeys, handed to the aggregator on its own
MaxViews == 4
\* largest N of the top-N report
MaxTop == 2
\* articles in the table of the ranking specification
MaxRank == 18

-----------------------------------------------------------------------------
(* URLs *)

REGISTER == <<"register">>
A1 == <<"articles", "article1">>
A2 == <<"articles", "article2">>
HOME == <<"home">>

\* url.startswith("/articles/")
IsArticle(url) == Len(url) >= 2 /\ url[1] = "articles"

\* url.split("/")[-1]
PageName(url) == url[Len(url)]

-----------------------------------------------------------------------------
(* Floats: IEEE-754 binary64, round to nearest, ties to even.  A positive  *)
(* double is [e, hi, lo]: its 53-bit significand is hi * 2^26 + lo, with   *)
(* 2^26 <= hi < 2^27 and 0 <= lo < 2^26, and its value is                  *)
(* (hi * 2^26 + lo) * 2^(e - 52).  Every float of the program is positive  *)
(* or the integer 0.                                                       *)

RECURSIVE Pow2(_)
Pow2(i) == IF i = 0 THEN 1 ELSE 2 * Pow2(i - 1)

LoBase == Pow2(26)
HiBase == Pow2(27)

\* the int 0 of article_scores.get(article, 0)
Zero == [e |-> 0, hi |-> 0, lo |-> 0]

\* the significand [hi, lo] plus one unit in the last place
NextUp(e, hi, lo) ==
    IF lo + 1 < LoBase THEN [e |-> e, hi |-> hi, lo |-> lo + 1]
    ELSE IF hi + 1 < HiBase THEN [e |-> e, hi |-> hi + 1, lo |-> 0]
    ELSE [e |-> e + 1, hi |-> LoBase, lo |-> 0]

\* The significand [hi, lo] followed by a discarded part of class c (0: nothing,
\* 1: less than half a unit in the last place, 2: exactly half, 3: more than
\* half), rounded to nearest, ties to even.
Round(e, hi, lo, c) ==
    IF c = 3 \/ (c = 2 /\ lo % 2 = 1) THEN NextUp(e, hi, lo)
    ELSE [e |-> e, hi |-> hi, lo |-> lo]

\* n and d scaled by powers of two until d <= n < 2d: e is floor(log2(n / d))
RECURSIVE DivNorm(_, _, _)
DivNorm(n, d, e) ==
    IF n < d THEN DivNorm(2 * n, d, e - 1)
    ELSE IF n >= 2 * d THEN DivNorm(n, 2 * d, e + 1)
    ELSE [n |-> n, d |-> d, e |-> e]

\* k more quotient bits of r / d appended to q, and the remainder left
RECURSIVE DivBits(_, _, _, _)
DivBits(r, d, k, q) ==
    IF k = 0 THEN [q |-> q, r |-> r]
    ELSE IF 2 * r >= d THEN DivBits(2 * r - d, d, k - 1, 2 * q + 1)
    ELSE DivBits(2 * r, d, k - 1, 2 * q)

\* a / b for integers a, b > 0, correctly rounded: the float that Python's
\* a / b and float(a) / b give, and the float of the literal a/b (0.4, 0.2)
FDiv(a, b) ==
    LET s == DivNorm(a, b, 0)
        h == DivBits(s.n - s.d, s.d, 26, 1)
        l == DivBits(h.r, s.d, 26, 0)
        c == IF l.r = 0 THEN 0
             ELSE IF 2 * l.r < s.d THEN 1
             ELSE IF 2 * l.r = s.d THEN 2 ELSE 3
    IN Round(s.e, h.q, l.q, c)

One == FDiv(1, 1)

\* the significand of y shifted right by d bits, and the class of the bits
\* shifted out
ShiftRight(y, d) ==
    IF d = 0 THEN [hi |-> y.hi, lo |-> y.lo, c |-> 0]
    ELSE IF d <= 26 THEN
        LET p == Pow2(d)
            r == y.lo % p
            half == Pow2(d - 1)
        IN [hi |-> y.hi \div p,
            lo |-> (y.lo \div p) + (y.hi % p) * Pow2(26 - d),
            c |-> IF r = 0 THEN 0 ELSE IF r < half THEN 1
                  ELSE IF r = half THEN 2 ELSE 3]
    ELSE IF d <= 53 THEN
        LET p == Pow2(d - 26)
            r == y.hi % p
            half == Pow2(d - 27)
        IN [hi |-> 0,
            lo |-> y.hi \div p,
            c |-> IF r = 0 /\ y.lo = 0 THEN 0 ELSE IF r < half THEN 1
                  ELSE IF r = half /\ y.lo = 0 THEN 2 ELSE 3]
    ELSE [hi |-> 0, lo |-> 0, c |-> 1]

\* x + y for floats 0 < y <= x
AddOrdered(x, y) ==
    LET s == ShiftRight(y, x.e - y.e)
        l0 == x.lo + s.lo
        lo == l0 % LoBase
        hi == x.hi + s.hi + (l0 \div LoBase)
    IN IF hi < HiBase THEN Round(x.e, hi, lo, s.c)
       ELSE Round(x.e + 1, hi \div 2, (lo \div 2) + (hi % 2) * Pow2(25),
                  IF lo % 2 = 1 THEN (IF s.c = 0 THEN 2 ELSE 3)
                  ELSE (IF s.c = 0 THEN 0 ELSE 1))

\* x < y
FLess(x, y) ==
    IF x = Zero THEN y # Zero
    ELSE IF y = Zero THEN FALSE
    ELSE \/ x.e < y.e
         \/ x.e = y.e /\ x.hi < y.hi
         \/ x.e = y.e /\ x.hi = y.hi /\ x.lo < y.lo

\* x + y
FAdd(x, y) ==
    IF x = Zero THEN y
    ELSE IF y = Zero THEN x
    ELSE IF FLess(x, y) THEN AddOrdered(y, x) ELSE AddOrdered(x, y)

-----------------------------------------------------------------------------
(* Python dicts, in insertion order *)

HasKey(d, k) == \E i \in DOMAIN d : d[i].key = k

\* d.get(k, default)
DictGet(d, k, default) ==
    IF HasKey(d, k)
    THEN LET i == CHOOSE i \in DOMAIN d : d[i].key = k IN d[i].val
    ELSE default

\* d[k] = v: an existing key keeps its place and takes the new value
DictSet(d, k, v) ==
    IF HasKey(d, k)
    THEN [i \in DOMAIN d |-> IF d[i].key = k THEN [key |-> k, val |-> v] ELSE d[i]]
    ELSE Append(d, [key |-> k, val |-> v])

Keys(d) == {d[i].key : i \in DOMAIN d}

RECURSIVE SumVals(_, _)
SumVals(d, i) == IF i = 0 THEN Zero ELSE FAdd(SumVals(d, i - 1), d[i].val)

\* sum(d.values())
SumValues(d) == SumVals(d, Len(d))

-----------------------------------------------------------------------------
(* calculate_attribution_scores *)

KnownMethods ==
    {"count", "first_touch", "last_touch", "linear", "position_based", "time_decay"}

Normalised == KnownMethods \ {"count"}

\* for article in journey: scores[article] = 1.0
RECURSIVE CountLoop(_, _, _)
CountLoop(jny, i, scores) ==
    IF i > Len(jny) THEN scores
    ELSE CountLoop(jny, i + 1, DictSet(scores, jny[i], One))

\* score = 1.0 / len(journey); for article in journey: scores[article] = score
RECURSIVE LinearLoop(_, _, _)
LinearLoop(jny, i, scores) ==
    IF i > Len(jny) THEN scores
    ELSE LinearLoop(jny, i + 1, DictSet(scores, jny[i], FDiv(1, Len(jny))))

\* the credit of the position with 0-based index i0 of a journey of n > 1
PositionCredit(n, i0) ==
    IF i0 = 0 THEN FDiv(2, 5)
    ELSE IF i0 = n - 1 THEN FDiv(2, 5)
    ELSE FDiv(1, 5)

RECURSIVE PositionLoop(_, _, _)
PositionLoop(jny, i, scores) ==
    IF i > Len(jny) THEN scores
    ELSE PositionLoop(jny, i + 1,
                      DictSet(scores, jny[i], PositionCredit(Len(jny), i - 1)))

\* sum(2**i for i in range(n))
RECURSIVE TotalWeight(_)
TotalWeight(n) == IF n = 0 THEN 0 ELSE TotalWeight(n - 1) + Pow2(n - 1)

\* the decay turned round: the earliest position weighs most
DecayCreditReversed(n, i0) == FDiv(Pow2(n - 1 - i0), TotalWeight(n))

\* 2**i / total_weight
DecayCredit(n, i0) == FDiv(Pow2(i0), TotalWeight(n))

RECURSIVE DecayLoop(_, _, _)
DecayLoop(jny, i, scores) ==
    IF i > Len(jny) THEN scores
    ELSE DecayLoop(jny, i + 1,
                   DictSet(scores, jny[i], DecayCredit(Len(jny), i - 1)))

calculate_attribution_scores(jny, method) ==
    IF jny = <<>> THEN <<>>
    ELSE IF method = "count" THEN CountLoop(jny, 1, <<>>)
    ELSE IF method = "first_touch" THEN DictSet(<<>>, jny[1], One)
    ELSE IF method = "last_touch" THEN DictSet(<<>>, jny[Len(jny)], One)
    ELSE IF method = "linear" THEN LinearLoop(jny, 1, <<>>)
    ELSE IF method = "position_based" THEN
        IF Len(jny) = 1 THEN DictSet(<<>>, jny[1], One)
        ELSE PositionLoop(jny, 1, <<>>)
    ELSE IF method = "time_decay" THEN
        IF Len(jny) = 1 THEN DictSet(<<>>, jny[1], One)
        ELSE DecayLoop(jny, 1, <<>>)
    ELSE <<>>

-----------------------------------------------------------------------------
(* The hit log: df = pd.read_csv(input_path), rows labelled 0, 1, ...      *)
(* (page_name is read and never used by the analysis, so rows omit it)     *)

Users == {1, 2}
LogURLs == {A1, A2, REGISTER, HOME}
Rows == [user_id : Users, page_url : LogURLs, timestamp : 1..MaxTs]
Logs == UNION {[1..n -> Rows] : n \in 0..MaxRows}

\* the row of df with index label l
RowAt(d, l) == d[l + 1]

\* df["user_id"].unique(): the users in order of first appearance
RECURSIVE UniqueUsers(_, _, _)
UniqueUsers(d, i, acc) ==
    IF i > Len(d) THEN acc
    ELSE UniqueUsers(d, i + 1,
                     IF \E j \in DOMAIN acc : acc[j] = d[i].user_id
                     THEN acc ELSE Append(acc, d[i].user_id))

\* df[df["user_id"] == user_id]: the index labels of the user's rows, ascending
RECURSIVE UserLabels(_, _, _, _)
UserLabels(d, u, i, acc) ==
    IF i > Len(d) THEN acc
    ELSE UserLabels(d, u, i + 1,
                    IF d[i].user_id = u THEN Append(acc, i - 1) ELSE acc)

\* sort_values is called with its default kind, "quicksort", which pandas and
\* numpy document as not stable: pandas' nargsort hands the keys to numpy's
\* argsort, and the order that leaves among equal keys depends on the numpy
\* the run uses.  A scalar build runs npysort's aquicksort, an introsort on an
\* array of positions, transcribed below.  A vectorised build (x86 with
\* AVX-512 or AVX2) dispatches 64-bit keys to a vectorised sort instead, whose
\* order among equal keys is not specified: every order is allowed.
Builds == {"scalar", "vectorised"}

\* the orders of the items of seq
Permutations(seq) ==
    {p \in [DOMAIN seq -> {seq[i] : i \in DOMAIN seq}] :
        \A i, j \in DOMAIN seq : i # j => p[i] # p[j]}

\* The scalar quicksort.  a holds positions of the keys and lt[i][j] says
\* that the key at position i is less than the key at position j.  The depth
\* limit after which aquicksort turns to heapsort, 2 * floor(log2(n)) nested
\* partitions, is out of reach for n < 2 * 17.

\* SMALL_QUICKSORT: a range a[pl..pr] is partitioned when pr - pl exceeds it
\* and sorted by insertion otherwise
SMALL_QUICKSORT == 16

\* INTP_SWAP(a[i], a[j])
Swap(a, i, j) == [a EXCEPT ![i] = a[j], ![j] = a[i]]

\* while (pj > pl && less(vp, v[*pk])) { *pj-- = *pk--; }  *pj = vi;
RECURSIVE InsertDown(_, _, _, _, _)
InsertDown(lt, a, pl, pj, vi) ==
    IF pj > pl /\ lt[vi][a[pj - 1]]
    THEN InsertDown(lt, [a EXCEPT ![pj] = a[pj - 1]], pl, pj - 1, vi)
    ELSE [a EXCEPT ![pj] = vi]

\* for (pi = pl + 1; pi <= pr; ++pi): the insertion sort of a[pl..pr]
RECURSIVE InsertionSort(_, _, _, _, _)
InsertionSort(lt, a, pl, pr, pi) ==
    IF pi > pr THEN a
    ELSE InsertionSort(lt, InsertDown(lt, a, pl, pi, a[pi]), pl, pr, pi + 1)

\* the three conditional swaps that put the median of a[pl], a[pm], a[pr] at pm
MedianOfThree(lt, a, pl, pm, pr) ==
    LET a1 == IF lt[a[pm]][a[pl]] THEN Swap(a, pm, pl) ELSE a
        a2 == IF lt[a1[pr]][a1[pm]] THEN Swap(a1, pr, pm) ELSE a1
    IN IF lt[a2[pm]][a2[pl]] THEN Swap(a2, pm, pl) ELSE a2

\* do { ++pi; } while (less(v[*pi], vp));
RECURSIVE ScanUp(_, _, _, _)
ScanUp(lt, a, pi, vp) ==
    IF lt[a[pi + 1]][vp] THEN ScanUp(lt, a, pi + 1, vp) ELSE pi + 1

\* do { --pj; } while (less(vp, v[*pj]));
RECURSIVE ScanDown(_, _, _, _)
ScanDown(lt, a, pj, vp) ==
    IF lt[vp][a[pj - 1]] THEN ScanDown(lt, a, pj - 1, vp) ELSE pj - 1

\* for (;;) { scan up; scan down; if (pi >= pj) break; INTP_SWAP(*pi, *pj); }
RECURSIVE PartitionLoop(_, _, _, _, _)
PartitionLoop(lt, a, pi, pj, vp) ==
    LET i == ScanUp(lt, a, pi, vp)
        j == ScanDown(lt, a, pj, vp)
    IN IF i >= j THEN [a |-> a, pi |-> i]
       ELSE PartitionLoop(lt, Swap(a, i, j), i, j, vp)

\* aquicksort on a[pl..pr]; vp is the position of the pivot's key
RECURSIVE QuickSort(_, _, _, _)
QuickSort(lt, a, pl, pr) ==
    IF pr - pl > SMALL_QUICKSORT
    THEN LET pm == pl + ((pr - pl) \div 2)
             m == MedianOfThree(lt, a, pl, pm, pr)
             vp == m[pm]
             p == PartitionLoop(lt, Swap(m, pm, pr - 1), pl, pr - 1, vp)
             q == Swap(p.a, p.pi, pr - 1)
         IN QuickSort(lt, QuickSort(lt, q, pl, p.pi - 1), p.pi + 1, pr)
    ELSE InsertionSort(lt, a, pl, pr, pl + 1)

\* keys.argsort(kind="quicksort") for n keys on build b: the arrays of the
\* positions of the keys in sorted order that the build can return
Argsort(n, lt, b) ==
    IF b = "scalar" THEN {QuickSort(lt, [i \in 1..n |-> i], 1, n)}
    ELSE {p \in Permutations([i \in 1..n |-> i]) :
             \A i, j \in 1..n : i < j => ~lt[p[j]][p[i]]}

\* .sort_values("timestamp"): nargsort, ascending
SortByTimestamp(d, labels, b) ==
    LET n == Len(labels)
        lt == [i \in 1..n |-> [j \in 1..n |->
                 RowAt(d, labels[i]).timestamp < RowAt(d, labels[j]).timestamp]]
    IN {[k \in 1..n |-> labels[sorted[k]]] : sorted \in Argsort(n, lt, b)}

IsIncreasing(index) == \A i, j \in DOMAIN index : i < j => index[i] < index[j]
IsDecreasing(index) == \A i, j \in DOMAIN index : i < j => index[i] > index[j]

\* The number of leading rows that .loc[:label] keeps of a frame whose index
\* is `index` (unique labels), or a KeyError.  The slice is by LABEL: a label
\* of the index ends the slice at its row, inclusive; a label missing from a
\* monotonic index ends it where the label would be inserted; a label
\* missing from an index in no order raises KeyError.
LocStop(index, label) ==
    IF \E i \in DOMAIN index : index[i] = label
    THEN [ok |-> TRUE, stop |-> CHOOSE i \in DOMAIN index : index[i] = label]
    ELSE IF IsIncreasing(index)
    THEN [ok |-> TRUE, stop |-> Cardinality({i \in DOMAIN index : index[i] < label})]
    ELSE IF IsDecreasing(index)
    THEN [ok |-> TRUE, stop |-> Cardinality({i \in DOMAIN index : index[i] > label})]
    ELSE [ok |-> FALSE, stop |-> 0]

\* "/register" in user_data["page_url"].values
HasRegistration(d, index) ==
    \E i \in DOMAIN index : RowAt(d, index[i]).page_url = REGISTER

\* user_data[user_data["page_url"] == "/register"].index[0]
RegistrationIndex(d, index) ==
    LET first == CHOOSE i \in DOMAIN index :
                    /\ RowAt(d, index[i]).page_url = REGISTER
                    /\ \A j \in 1..(i - 1) : RowAt(d, index[j]).page_url # REGISTER
    IN index[first]

\* user_data.loc[: stop, "page_url"].tolist(), stop rows kept
PageUrls(d, index, stop) == [i \in 1..stop |-> RowAt(d, index[i]).page_url]

\* One pass of the loop over the users, for user u whose rows sorted by
\* timestamp carry the labels `index`: whether the pass ends normally (a
\* KeyError of .loc otherwise) and the journeys mapping afterwards.
ExtractJourney(d, u, index, jnys) ==
    IF ~HasRegistration(d, index) THEN [ok |-> TRUE, journeys |-> jnys]
    ELSE LET loc == LocStop(index, RegistrationIndex(d, index) - 1) IN
         IF ~loc.ok THEN [ok |-> FALSE, journeys |-> jnys]
         ELSE IF loc.stop = 0 THEN [ok |-> TRUE, journeys |-> jnys]
         ELSE [ok |-> TRUE,
               journeys |-> Append(jnys, [user |-> u,
                                          journey |-> PageUrls(d, index, loc.stop)])]

-----------------------------------------------------------------------------
(* Aggregation and ranking *)

\* the running total replaced by the last credit instead of added to
RECURSIVE AccumulateOverwrite(_, _, _)
AccumulateOverwrite(totals, scores, i) ==
    IF i > Len(scores) THEN totals
    ELSE AccumulateOverwrite(DictSet(totals, scores[i].key, scores[i].val),
                             scores, i + 1)

\* for article, score in journey_scores.items():
\*     article_scores[article] = article_scores.get(article, 0) + score
RECURSIVE Accumulate(_, _, _)
Accumulate(totals, scores, i) ==
    IF i > Len(scores) THEN totals
    ELSE Accumulate(DictSet(totals, scores[i].key,
                            FAdd(DictGet(totals, scores[i].key, Zero), scores[i].val)),
                    scores, i + 1)

\* the rows of the results list: the /articles/ URLs of article_scores
RECURSIVE ResultRows(_, _, _)
ResultRows(totals, i, acc) ==
    IF i > Len(totals) THEN acc
    ELSE ResultRows(totals, i + 1,
                    IF IsArticle(totals[i].key)
                    THEN Append(acc, [page_name |-> PageName(totals[i].key),
                                      page_url |-> totals[i].key,
                                      total |-> totals[i].val])
                    ELSE acc)

\* .sort_values("total", ascending=False): nargsort reverses the keys, takes
\* their argsort, maps it back to the rows and reverses the outcome
SortByTotalDesc(rows, b) ==
    LET n == Len(rows)
        lt == [i \in 1..n |-> [j \in 1..n |->
                 FLess(rows[n + 1 - i].total, rows[n + 1 - j].total)]]
    IN {[k \in 1..n |-> rows[n + 1 - sorted[n + 1 - k]]] :
           sorted \in Argsort(n, lt, b)}

\* results.head(n)
Head_(frame, n) == SubSeq(frame, 1, IF n < Len(frame) THEN n ELSE Len(frame))

-----------------------------------------------------------------------------
(* The pipeline as a state machine *)

AllMethods == KnownMethods \cup {"markov"}

NUsers == Len(UniqueUsers(df, 1, <<>>))

Init ==
    /\ df \in Logs
    /\ attribution_method \in AllMethods
    /\ user_pos = 0
    /\ journeys = <<>>
    /\ scored = 0
    /\ journey = <<>>
    /\ journey_scores = <<>>
    /\ article_scores = <<>>
    /\ results = <<>>
    /\ top = 0
    /\ topN = <<>>
    /\ pc = "analyze"
    /\ build \in Builds

\* one pass of the loop of lines 152-171
ExtractUser ==
    /\ pc = "analyze"
    /\ user_pos < NUsers
    /\ LET u == UniqueUsers(df, 1, <<>>)[user_pos + 1] IN
       \E index \in SortByTimestamp(df, UserLabels(df, u, 1, <<>>), build) :
          LET out == ExtractJourney(df, u, index, journeys) IN
          IF ~out.ok
          THEN /\ pc' = "KeyError"
               /\ UNCHANGED <<journeys, user_pos>>
          ELSE /\ journeys' = out.journeys
               /\ user_pos' = user_pos + 1
               /\ pc' = pc
    /\ UNCHANGED <<build, df, attribution_method, scored, journey, journey_scores,
                   article_scores, results, top, topN>>

\* one pass of the loop of lines 175-178
ScoreJourney ==
    /\ pc = "analyze"
    /\ user_pos = NUsers
    /\ scored < Len(journeys)
    /\ journey' = journeys[scored + 1].journey
    /\ journey_scores' = calculate_attribution_scores(journey', attribution_method)
    /\ article_scores' = Accumulate(article_scores, journey_scores', 1)
    /\ scored' = scored + 1
    /\ UNCHANGED <<build, df, attribution_method, user_pos, journeys, results, top, topN, pc>>

\* lines 180-193: the results frame, sorted
BuildResults ==
    /\ pc = "analyze"
    /\ user_pos = NUsers
    /\ scored = Len(journeys)
    /\ results' \in SortByTotalDesc(ResultRows(article_scores, 1, <<>>), build)
    /\ pc' = "returned"
    /\ UNCHANGED <<build, df, attribution_method, user_pos, journeys, scored, journey,
                   journey_scores, article_scores, top, topN>>

\* analysis: topN = results.head(top)
Report ==
    /\ pc = "returned"
    /\ \E n \in 0..MaxTop :
          /\ top' = n
          /\ topN' = Head_(results, n)
    /\ pc' = "done"
    /\ UNCHANGED <<build, df, attribution_method, user_pos, journeys, scored, journey,
                   journey_scores, article_scores, results>>

Next == ExtractUser \/ ScoreJourney \/ BuildResults \/ Report

Spec == Init /\ [][Next]_vars

-----------------------------------------------------------------------------
(* The scorer on its own: calculate_attribution_scores(journey, method)    *)

ScorerURLs == {<<"a1">>, <<"a2">>, <<"a3">>, <<"a4">>}
ScorerJourneys == UNION {[1..n -> ScorerURLs] : n \in 0..MaxLen}

InitScore ==
    /\ journey \in ScorerJourneys
    /\ attribution_method \in AllMethods
    /\ journey_scores = <<>>
    /\ pc = "call"
    /\ df = <<>>
    /\ user_pos = 0
    /\ journeys = <<>>
    /\ scored = 0
    /\ article_scores = <<>>
    /\ results = <<>>
    /\ top = 0
    /\ topN = <<>>
    /\ build \in Builds

Score ==
    /\ pc = "call"
    /\ journey_scores' = calculate_attribution_scores(journey, attribution_method)
    /\ pc' = "scored"
    /\ UNCHANGED <<build, df, attribution_method, user_pos, journeys, scored, journey,
                   article_scores, results, top, topN>>

SpecScore == InitScore /\ [][Score]_vars

-----------------------------------------------------------------------------
(* The aggregator and the reporter on their own, from line 173 on: the     *)
(* journeys mapping holds one non-empty journey per qualifying user        *)

AggURLs == {A1, A2, HOME}
Views == UNION {[1..n -> AggURLs] : n \in 0..MaxViews}

\* the page views `flat` cut into journeys after the positions in `cuts`
RECURSIVE SplitViews(_, _, _, _, _)
SplitViews(flat, cuts, i, cur, acc) ==
    IF i > Len(flat) THEN acc
    ELSE IF i \in cuts \/ i = Len(flat)
    THEN SplitViews(flat, cuts, i + 1, <<>>,
                    Append(acc, [user |-> Len(acc) + 1,
                                 journey |-> Append(cur, flat[i])]))
    ELSE SplitViews(flat, cuts, i + 1, Append(cur, flat[i]), acc)

InitJourneys ==
    /\ \E flat \in Views : \E cuts \in SUBSET (1..(Len(flat) - 1)) :
          journeys = SplitViews(flat, cuts, 1, <<>>, <<>>)
    /\ attribution_method \in AllMethods
    /\ df = <<>>
    /\ user_pos = 0
    /\ scored = 0
    /\ journey = <<>>
    /\ journey_scores = <<>>
    /\ article_scores = <<>>
    /\ results = <<>>
    /\ top = 0
    /\ topN = <<>>
    /\ pc = "analyze"
    /\ build \in Builds

NextAggregate == ScoreJourney \/ BuildResults \/ Report

SpecAggregate == InitJourneys /\ [][NextAggregate]_vars

-----------------------------------------------------------------------------
(* The aggregator and the reporter on long tables, from line 173 on, on a   *)
(* scalar build: one user who viewed the articles 1..n in that order, and  *)
(* possibly a second user who viewed one or two of them                    *)

\* /articles/<k>
Article(k) == <<"articles", k>>

InitRank ==
    /\ \E n \in 1..MaxRank : \E i, j \in 0..n :
          LET second == (IF i > 0 THEN <<Article(i)>> ELSE <<>>)
                           \o (IF j > 0 /\ j # i THEN <<Article(j)>> ELSE <<>>)
              first == [user |-> 1, journey |-> [k \in 1..n |-> Article(k)]]
          IN journeys = IF second = <<>> THEN <<first>>
                        ELSE <<first, [user |-> 2, journey |-> second]>>
    /\ attribution_method \in AllMethods
    /\ df = <<>>
    /\ user_pos = 0
    /\ scored = 0
    /\ journey = <<>>
    /\ journey_scores = <<>>
    /\ article_scores = <<>>
    /\ results = <<>>
    /\ top = 0
    /\ topN = <<>>
    /\ pc = "analyze"
    /\ build = "scalar"

SpecRank == InitRank /\ [][NextAggregate]_vars

-----------------------------------------------------------------------------
(* Claims about the scorer, checked under SpecScore *)

\* the floating-point tolerance of the specification, 1e-9
Tolerance == FDiv(1, 1000000000)

\* x and y differ by no more than the tolerance
Close(x, y) ==
    /\ ~FLess(FAdd(y, Tolerance), x)
    /\ ~FLess(FAdd(x, Tolerance), y)

\* the positions of jny that hold url
PositionsOf(jny, url) == {i \in DOMAIN jny : jny[i] = url}

Distinct(jny) == \A i, j \in DOMAIN jny : i # j => jny[i] # jny[j]

\* The per-position table of the policies: the credit of the position with
\* 1-based index i of a journey of n URLs.
TableCredit(method, n, i) ==
    CASE method = "count" -> One
      [] method = "first_touch" -> IF i = 1 THEN One ELSE Zero
      [] method = "last_touch" -> IF i = n THEN One ELSE Zero
      [] method = "linear" -> FDiv(1, n)
      [] method = "position_based" ->
            IF n = 1 THEN One
            ELSE IF i = 1 \/ i = n THEN FDiv(2, 5) ELSE FDiv(1, 5)
      [] method = "time_decay" -> FDiv(Pow2(i - 1), Pow2(n) - 1)

RECURSIVE SumTable(_, _, _, _)
SumTable(method, n, positions, i) ==
    IF i > n THEN Zero
    ELSE FAdd(IF i \in positions THEN TableCredit(method, n, i) ELSE Zero,
              SumTable(method, n, positions, i + 1))

\* the mapping has one item per key
UniqueKeys(d) == \A i, j \in DOMAIN d : i # j => d[i].key # d[j].key

\* C1: for every non-empty journey and every policy but count, the credits of
\* the returned mapping sum to 1.0 (stated up to the tolerance, so that no
\* rounding of the floating-point sum counts against it).
C1_CreditConserved ==
    (pc = "scored" /\ journey # <<>> /\ attribution_method \in Normalised)
        => Close(SumValues(journey_scores), One)

\* C2: for a journey of n >= 1 pairwise-distinct URLs the returned mapping is
\* exactly the per-position table: its keys are the URLs of the positions
\* with a non-zero table credit, each once, each with the table's credit.
C2_PositionTable ==
    (pc = "scored" /\ journey # <<>> /\ Distinct(journey)
        /\ attribution_method \in KnownMethods)
        => LET n == Len(journey) IN
           /\ UniqueKeys(journey_scores)
           /\ Keys(journey_scores) =
                {journey[i] : i \in {j \in 1..n :
                    TableCredit(attribution_method, n, j) # Zero}}
           /\ \A i \in 1..n :
                 HasKey(journey_scores, journey[i]) =>
                    DictGet(journey_scores, journey[i], Zero)
                        = TableCredit(attribution_method, n, i)

\* C2's case: four distinct URLs scored by position, so that a first, a last
\* and two middle positions are in the table
C2_Witness ==
    /\ pc = "scored"
    /\ journey = <<(<<"a1">>), (<<"a2">>), (<<"a3">>), (<<"a4">>)>>
    /\ attribution_method = "position_based"
    /\ Len(journey_scores) = 4

\* C3: the credit returned for a URL is the sum of the per-position credits
\* of all the positions it occupies, under every policy (stated up to the
\* tolerance, so that no rounding of the floating-point sum counts against it).
C3_RepeatsSummed ==
    (pc = "scored" /\ journey # <<>> /\ attribution_method \in KnownMethods)
        => \A i \in DOMAIN journey :
              Close(DictGet(journey_scores, journey[i], Zero),
                    SumTable(attribution_method, Len(journey),
                             PositionsOf(journey, journey[i]), 1))

\* C4: the scorer never returns a mapping for a non-empty journey and a
\* policy name outside the six known ones.
C4_UnknownPolicyFails ==
    (journey # <<>> /\ attribution_method \notin KnownMethods) => pc # "scored"

-----------------------------------------------------------------------------
(* The two loops of analyze_user_journeys as functions of the log *)

\* the outcomes of the loop of lines 152-171 from user number k on
RECURSIVE ExtractAll(_, _, _)
ExtractAll(d, k, jnys) ==
    LET users == UniqueUsers(d, 1, <<>>) IN
    IF k > Len(users) THEN {[ok |-> TRUE, journeys |-> jnys]}
    ELSE UNION {LET out == ExtractJourney(d, users[k], index, jnys) IN
                IF out.ok THEN ExtractAll(d, k + 1, out.journeys) ELSE {out} :
                    index \in SortByTimestamp(d, UserLabels(d, users[k], 1, <<>>),
                                              build)}

\* article_scores after the loop of lines 175-178 from journey number k on
RECURSIVE ScoreAll(_, _, _, _)
ScoreAll(jnys, method, k, totals) ==
    IF k > Len(jnys) THEN totals
    ELSE ScoreAll(jnys, method, k + 1,
                  Accumulate(totals,
                             calculate_attribution_scores(jnys[k].journey, method), 1))

-----------------------------------------------------------------------------
(* Claims about journey extraction, checked under Spec *)

\* no user has two rows of one timestamp
NoTies(d) ==
    \A i, j \in DOMAIN d :
        (i # j /\ d[i].user_id = d[j].user_id) => d[i].timestamp # d[j].timestamp

\* the labels of the user's rows in the stable ascending timestamp order
StableOrder(d, u) ==
    CHOOSE p \in Permutations(UserLabels(d, u, 1, <<>>)) :
        \A i, j \in DOMAIN p :
            i < j => \/ RowAt(d, p[i]).timestamp < RowAt(d, p[j]).timestamp
                     \/ /\ RowAt(d, p[i]).timestamp = RowAt(d, p[j]).timestamp
                        /\ p[i] < p[j]

\* the URLs of the user's events before the first /register of that order
JourneyBeforeRegistration(d, u) ==
    LET p == StableOrder(d, u)
        first == CHOOSE i \in DOMAIN p :
                    /\ RowAt(d, p[i]).page_url = REGISTER
                    /\ \A j \in 1..(i - 1) : RowAt(d, p[j]).page_url # REGISTER
    IN [i \in 1..(first - 1) |-> RowAt(d, p[i]).page_url]

UserRegisters(d, u) ==
    \E i \in DOMAIN d : d[i].user_id = u /\ d[i].page_url = REGISTER

\* the journey the extraction holds for user u, <<>> when it holds none
ExtractedJourney(u) ==
    IF \E k \in DOMAIN journeys : journeys[k].user = u
    THEN journeys[CHOOSE k \in DOMAIN journeys : journeys[k].user = u].journey
    ELSE <<>>

\* the users the extraction loop has passed
Processed == {UniqueUsers(df, 1, <<>>)[k] : k \in 1..user_pos}

\* C5 (on the logs without timestamp ties within a user): the journey
\* extracted for a user with a registration is exactly the URLs of the user's
\* events before the first /register in ascending timestamp order, whatever
\* the order of the rows of the log.
C5_JourneyBeforeFirstRegistration ==
    NoTies(df) =>
        \A u \in Processed :
            UserRegisters(df, u) =>
                ExtractedJourney(u) = JourneyBeforeRegistration(df, u)

\* every user's rows stand in the log in strictly ascending timestamp order
RowsInOrder(d) ==
    \A i, j \in DOMAIN d :
        (i < j /\ d[i].user_id = d[j].user_id) => d[i].timestamp < d[j].timestamp

\* C6 (on the logs whose rows stand in timestamp order): a URL that neither
\* begins with /articles/ nor is /register holds no position of an extracted
\* journey and is no row of the results.
C6_OnlyContentInJourneys ==
    RowsInOrder(df) =>
        /\ \A k \in DOMAIN journeys : \A i \in DOMAIN journeys[k].journey :
              \/ IsArticle(journeys[k].journey[i])
              \/ journeys[k].journey[i] = REGISTER
        /\ \A i \in DOMAIN results : IsArticle(results[i].page_url)

\* the user's earliest event is a registration
RegistersFirst(d, u) ==
    \E i \in DOMAIN d :
        /\ d[i].user_id = u
        /\ d[i].page_url = REGISTER
        /\ \A j \in DOMAIN d :
              (j # i /\ d[j].user_id = u) => d[i].timestamp < d[j].timestamp

\* C7 (on the logs without timestamp ties within a user): a user whose
\* registration is their first event in timestamp order contributes no
\* journey, and the pass over that user raises no error.
C7_RegistersFirstNoJourney ==
    NoTies(df) =>
        \A u \in Users :
            RegistersFirst(df, u) =>
                /\ \A k \in DOMAIN journeys : journeys[k].user # u
                /\ ~(pc = "KeyError" /\ UniqueUsers(df, 1, <<>>)[user_pos + 1] = u)

\* the log without the rows of user u
RECURSIVE WithoutUser(_, _, _, _)
WithoutUser(d, u, i, acc) ==
    IF i > Len(d) THEN acc
    ELSE WithoutUser(d, u, i + 1, IF d[i].user_id = u THEN acc ELSE Append(acc, d[i]))

RowSet(frame) == {frame[i] : i \in DOMAIN frame}

\* C8 (on the logs without timestamp ties within a user): when the analysis
\* returns, its table has the rows of the table obtained from the log
\* without the events of any one user who never registers; and a log without
\* registrations yields an empty table and no error.
C8_NoRegistrationNoCredit ==
    NoTies(df) =>
        /\ pc = "returned" =>
              \A u \in Users :
                  ~UserRegisters(df, u) =>
                      \E out \in ExtractAll(WithoutUser(df, u, 1, <<>>), 1, <<>>) :
                          /\ out.ok
                          /\ RowSet(ResultRows(ScoreAll(out.journeys,
                                                        attribution_method, 1, <<>>),
                                               1, <<>>))
                                = RowSet(results)
        /\ (\A u \in Users : ~UserRegisters(df, u)) =>
              /\ pc # "KeyError"
              /\ results = <<>>

-----------------------------------------------------------------------------
(* Claims about aggregation and ranking, checked under SpecAggregate and *)
(* SpecRank                                                                *)

Unsorted == ResultRows(article_scores, 1, <<>>)

Min(a, b) == IF a < b THEN a ELSE b

\* the position of the first row of the largest total
FirstMax(rows) ==
    CHOOSE i \in DOMAIN rows :
        /\ \A j \in DOMAIN rows : ~FLess(rows[i].total, rows[j].total)
        /\ \A j \in 1..(i - 1) : FLess(rows[j].total, rows[i].total)

\* the descending order of the rows in which rows of equal total keep the
\* order they have in `rows`
RECURSIVE StableDesc(_)
StableDesc(rows) ==
    IF rows = <<>> THEN <<>>
    ELSE LET i == FirstMax(rows) IN
         <<rows[i]>> \o StableDesc(SubSeq(rows, 1, i - 1)
                                      \o SubSeq(rows, i + 1, Len(rows)))

\* C9: the table is the stable descending sort of the aggregation, rows of
\* equal total in first-appearance order, and the report is its first
\* min(N, number of rows) rows.
C9_StableRanking ==
    /\ pc \in {"returned", "done"} => results = StableDesc(Unsorted)
    /\ pc = "done" => topN = SubSeq(results, 1, Min(top, Len(results)))

\* the mappings the scorer returns for the journeys processed so far
RECURSIVE CreditsUpTo(_)
CreditsUpTo(k) ==
    IF k = 0 THEN <<>>
    ELSE Append(CreditsUpTo(k - 1),
                calculate_attribution_scores(journeys[k].journey,
                                             attribution_method))

Credits == CreditsUpTo(scored)

\* acc plus the credits of url in the journeys order[i], order[i + 1], ...,
\* added one after the other in that order
RECURSIVE SumCredits(_, _, _, _, _)
SumCredits(credits, order, url, i, acc) ==
    IF i > Len(order) THEN acc
    ELSE SumCredits(credits, order, url, i + 1,
                    FAdd(acc, DictGet(credits[order[i]], url, Zero)))

\* the orders of the journeys processed so far
Orders == Permutations([k \in 1..scored |-> k])

Articles == {u \in AggURLs : IsArticle(u)}

RECURSIVE SumTotals(_, _)
SumTotals(frame, i) ==
    IF i = 0 THEN Zero ELSE FAdd(SumTotals(frame, i - 1), frame[i].total)

\* C10 as stated: the running total of each /articles/ URL is the sum of the
\* credits the scorer returns for it in the journeys processed so far,
\* whatever the order the journeys are taken in.
C10_SameTotalInAnyOrder ==
    pc = "analyze" =>
        LET credits == Credits IN
        \A url \in Articles : \A order \in Orders :
            DictGet(article_scores, url, Zero)
                = SumCredits(credits, order, url, 1, Zero)

\* C10 as amended: the running total of each /articles/ URL is the sum of
\* the credits the scorer returns for it in the journeys processed so far,
\* added one after the other in the order the journeys are processed in; and
\* for a single journey of two different articles under linear the total
\* column sums to 1.0.
C10_TotalsAreSums ==
    /\ pc = "analyze" =>
          LET credits == Credits IN
          \A url \in Articles :
              DictGet(article_scores, url, Zero)
                 = SumCredits(credits, [k \in 1..scored |-> k], url, 1, Zero)
    /\ (/\ pc = "returned"
        /\ attribution_method = "linear"
        /\ Len(journeys) = 1
        /\ Len(journeys[1].journey) = 2
        /\ journeys[1].journey[1] # journeys[1].journey[2]
        /\ \A i \in 1..2 : IsArticle(journeys[1].journey[i]))
          => SumTotals(results, Len(results)) = One

\* C10's case: three journeys that share an article, all processed, whose
\* total is the sum of its three credits in processing order and differs in
\* the last place from their sum in another order
C10_Witness ==
    /\ pc = "analyze"
    /\ scored = 3
    /\ Len(journeys) = 3
    /\ \A k \in 1..3 : \E i \in DOMAIN journeys[k].journey : journeys[k].journey[i] = A1
    /\ \E order \in Orders :
          DictGet(article_scores, A1, Zero) # SumCredits(Credits, order, A1, 1, Zero)

====
